---- MODULE Spec2Model ----
(***************************************************************************)
(* A model of src/parser.ts of keep-a-changelog: the tokenizer (tokenize,  *)
(* isEmpty), the token consumer (processTokens, getContent) and the entry  *)
(* point (parser) with its catch handler.                                   *)
(*                                                                         *)
(* A JavaScript string is a sequence of one-character strings, so that     *)
(* trimming, splitting, lower-casing and the regular expressions are       *)
(* computed character by character as the code computes them.  The value   *)
(* undefined is the one-element sequence Undefined, which no string of     *)
(* characters equals.                                                      *)
(***************************************************************************)
EXTENDS Integers, Sequences, FiniteSets, TLC

VARIABLES markdown, tokens, cursor, pc, changelog, type, error, thrown, result

vars == <<markdown, tokens, cursor, pc, changelog, type, error, thrown, result>>

(***************************************************************************)
(* Strings                                                                 *)
(***************************************************************************)

Undefined == <<"undefined">>

\* The characters String.prototype.trim and the class \s take for white space
\* (those of them the inputs below use).
WhiteSpace == {" ", "\t", "\n"}

Digits == {"0", "1", "2", "3", "4", "5", "6", "7", "8", "9"}

IsSpace(c) == c \in WhiteSpace

\* the first index >= k of s that holds no white space (Len(s) + 1 when none)
RECURSIVE SkipSpace(_, _)
SkipSpace(s, k) ==
    IF k <= Len(s) /\ IsSpace(s[k]) THEN SkipSpace(s, k + 1) ELSE k

\* the last index <= k of s that holds no white space (0 when none)
RECURSIVE SkipSpaceBack(_, _)
SkipSpaceBack(s, k) ==
    IF k >= 1 /\ IsSpace(s[k]) THEN SkipSpaceBack(s, k - 1) ELSE k

TrimStart(s) == SubSeq(s, SkipSpace(s, 1), Len(s))

TrimEnd(s) == SubSeq(s, 1, SkipSpaceBack(s, Len(s)))

Trim(s) == TrimEnd(TrimStart(s))

StartsWith(s, prefix) ==
    Len(s) >= Len(prefix) /\ SubSeq(s, 1, Len(prefix)) = prefix

EndsWith(s, suffix) ==
    Len(s) >= Len(suffix) /\ SubSeq(s, Len(s) - Len(suffix) + 1, Len(s)) = suffix

\* s.substr(n): the characters from index n (0-based) on
Substr(s, n) == SubSeq(s, n + 1, Len(s))

\* s occurs in t at the 1-based position k
OccursAt(t, k, s) ==
    k >= 1 /\ k + Len(s) - 1 <= Len(t) /\ SubSeq(t, k, k + Len(s) - 1) = s

Includes(t, s) == \E k \in 1..(Len(t) + 1) : OccursAt(t, k, s)

LowerChar(c) ==
    CASE c = "A" -> "a" [] c = "B" -> "b" [] c = "C" -> "c" [] c = "D" -> "d"
      [] c = "E" -> "e" [] c = "F" -> "f" [] c = "G" -> "g" [] c = "H" -> "h"
      [] c = "I" -> "i" [] c = "J" -> "j" [] c = "K" -> "k" [] c = "L" -> "l"
      [] c = "M" -> "m" [] c = "N" -> "n" [] c = "O" -> "o" [] c = "P" -> "p"
      [] c = "Q" -> "q" [] c = "R" -> "r" [] c = "S" -> "s" [] c = "T" -> "t"
      [] c = "U" -> "u" [] c = "V" -> "v" [] c = "W" -> "w" [] c = "X" -> "x"
      [] c = "Y" -> "y" [] c = "Z" -> "z" [] OTHER -> c

ToLowerCase(s) == [i \in 1..Len(s) |-> LowerChar(s[i])]

\* lines.join(sep)
RECURSIVE Join(_, _)
Join(lines, sep) ==
    IF lines = <<>> THEN <<>>
    ELSE IF Len(lines) = 1 THEN lines[1]
    ELSE lines[1] \o sep \o Join(Tail(lines), sep)

\* s.split("\n"): the empty string splits into one empty line
\* (the lines of s from index k on, the first of them starting at index start)
RECURSIVE SplitFrom(_, _, _)
SplitFrom(s, start, k) ==
    IF k > Len(s) THEN <<SubSeq(s, start, Len(s))>>
    ELSE IF s[k] = "\n" THEN <<SubSeq(s, start, k - 1)>> \o SplitFrom(s, k + 1, k + 1)
    ELSE SplitFrom(s, start, k + 1)

Split(s) == SplitFrom(s, 1, 1)

(***************************************************************************)
(* The tokenizer                                                           *)
(***************************************************************************)

\* /^\[.*\]\:\s*http.*$/
IsLink(line) ==
    /\ StartsWith(line, <<"[">>)
    /\ \E k \in 2..Len(line) :
          /\ OccursAt(line, k, <<"]", ":">>)
          /\ OccursAt(line, SkipSpace(line, k + 2), <<"h", "t", "t", "p">>)

\* /^<!--(.*)-->$/
IsFlag(line) ==
    /\ Len(line) >= 7
    /\ StartsWith(line, <<"<", "!", "-", "-">>)
    /\ EndsWith(line, <<"-", "-", ">">>)

FlagText(line) == SubSeq(line, 5, Len(line) - 3)

\* LineToken with the content of a Paragraph left as the line is
LineTokenUntrimmed(line, index) ==
    LET lineNumber == index + 1 IN
    IF StartsWith(line, <<"-", "-", "-">>) THEN <<lineNumber, "hr", << <<"-">> >> >>
    ELSE IF StartsWith(line, <<"#", " ">>) THEN
        <<lineNumber, "h1", <<Trim(Substr(line, 1))>> >>
    ELSE IF StartsWith(line, <<"#", "#", " ">>) THEN
        <<lineNumber, "h2", <<Trim(Substr(line, 2))>> >>
    ELSE IF StartsWith(line, <<"#", "#", "#", " ">>) THEN
        <<lineNumber, "h3", <<Trim(Substr(line, 3))>> >>
    ELSE IF StartsWith(line, <<"-">>) THEN
        <<lineNumber, "li", <<Trim(Substr(line, 1))>> >>
    ELSE IF StartsWith(line, <<"*">>) THEN
        <<lineNumber, "li", <<Trim(Substr(line, 1))>> >>
    ELSE IF IsLink(line) THEN <<lineNumber, "link", <<Trim(line)>> >>
    ELSE IF IsFlag(line) THEN <<lineNumber, "flag", <<Trim(FlagText(line))>> >>
    ELSE <<lineNumber, "p", <<line>> >>

\* LineToken with "#", "##" and "###" taken for headings without content
LineTokenBareHeading(line, index) ==
    LET lineNumber == index + 1 IN
    IF line = <<"#">> THEN <<lineNumber, "h1", << <<>> >> >>
    ELSE IF line = <<"#", "#">> THEN <<lineNumber, "h2", << <<>> >> >>
    ELSE IF line = <<"#", "#", "#">> THEN <<lineNumber, "h3", << <<>> >> >>
    ELSE IF StartsWith(line, <<"-", "-", "-">>) THEN <<lineNumber, "hr", << <<"-">> >> >>
    ELSE IF StartsWith(line, <<"#", " ">>) THEN
        <<lineNumber, "h1", <<Trim(Substr(line, 1))>> >>
    ELSE IF StartsWith(line, <<"#", "#", " ">>) THEN
        <<lineNumber, "h2", <<Trim(Substr(line, 2))>> >>
    ELSE IF StartsWith(line, <<"#", "#", "#", " ">>) THEN
        <<lineNumber, "h3", <<Trim(Substr(line, 3))>> >>
    ELSE IF StartsWith(line, <<"-">>) THEN
        <<lineNumber, "li", <<Trim(Substr(line, 1))>> >>
    ELSE IF StartsWith(line, <<"*">>) THEN
        <<lineNumber, "li", <<Trim(Substr(line, 1))>> >>
    ELSE IF IsLink(line) THEN <<lineNumber, "link", <<Trim(line)>> >>
    ELSE IF IsFlag(line) THEN <<lineNumber, "flag", <<Trim(FlagText(line))>> >>
    ELSE <<lineNumber, "p", <<TrimEnd(line)>> >>

\* The callback of map: the token of one line
LineToken(line, index) ==
    LET lineNumber == index + 1 IN
    IF StartsWith(line, <<"-", "-", "-">>) THEN <<lineNumber, "hr", << <<"-">> >> >>
    ELSE IF StartsWith(line, <<"#", " ">>) THEN
        <<lineNumber, "h1", <<Trim(Substr(line, 1))>> >>
    ELSE IF StartsWith(line, <<"#", "#", " ">>) THEN
        <<lineNumber, "h2", <<Trim(Substr(line, 2))>> >>
    ELSE IF StartsWith(line, <<"#", "#", "#", " ">>) THEN
        <<lineNumber, "h3", <<Trim(Substr(line, 3))>> >>
    ELSE IF StartsWith(line, <<"-">>) THEN
        <<lineNumber, "li", <<Trim(Substr(line, 1))>> >>
    ELSE IF StartsWith(line, <<"*">>) THEN
        <<lineNumber, "li", <<Trim(Substr(line, 1))>> >>
    ELSE IF IsLink(line) THEN <<lineNumber, "link", <<Trim(line)>> >>
    ELSE IF IsFlag(line) THEN <<lineNumber, "flag", <<Trim(FlagText(line))>> >>
    ELSE <<lineNumber, "p", <<TrimEnd(line)>> >>

\* StripIndent that removes the one white-space character of a line that
\* starts with only one
StripIndentUpToTwo(content) ==
    IF Len(content) >= 2 /\ IsSpace(content[1]) /\ IsSpace(content[2])
    THEN Substr(content, 2)
    ELSE IF Len(content) >= 1 /\ IsSpace(content[1]) THEN Substr(content, 1)
    ELSE content

\* content.replace(/^\s\s/, "")
StripIndent(content) ==
    IF Len(content) >= 2 /\ IsSpace(content[1]) /\ IsSpace(content[2])
    THEN Substr(content, 2) ELSE content

\* tokens[0][2].push(c): a line added to the content of the newest token
PushContent(toks, c) ==
    <<  <<toks[1][1], toks[1][2], Append(toks[1][3], c)>>  >> \o Tail(toks)

\* MergeLine that adds a line to the newest token whenever the two are of the
\* same kind
MergeLineSameKind(toks, line, index) ==
    LET content == line[3][1]
        prevType == toks[1][2]
    IN  IF index > 0 /\ line[2] = prevType THEN PushContent(toks, content)
        ELSE IF index > 0 /\ line[2] = "p" /\ prevType = "li"
             THEN PushContent(toks, StripIndent(content))
        ELSE << <<line[1], line[2], <<content>> >> >> \o toks

\* The callback of forEach: toks holds the tokens newest first (unshift)
MergeLine(toks, line, index) ==
    LET content == line[3][1]
        prevType == toks[1][2]
    IN  IF index > 0 /\ line[2] = "p" /\ prevType = "p" THEN PushContent(toks, content)
        ELSE IF index > 0 /\ line[2] = "p" /\ prevType = "li"
             THEN PushContent(toks, StripIndent(content))
        ELSE << <<line[1], line[2], <<content>> >> >> \o toks

RECURSIVE MergeLines(_, _, _)
MergeLines(lines, index, toks) ==
    IF index >= Len(lines) THEN toks
    ELSE MergeLines(lines, index + 1,
                    MergeLine(toks, LineToken(lines[index + 1], index), index))

\* isEmpty of a string (undefined is empty too)
IsEmptyString(val) == val = Undefined \/ val = <<>> \/ Trim(val) = <<>>

\* isEmpty of an array: the elements joined by ""
IsEmptyArray(val) == IsEmptyString(Join(val, <<>>))

\* content[i] of an array: undefined out of range
At(content, i) == IF i \in 1..Len(content) THEN content[i] ELSE Undefined

\* while (isEmpty(content[content.length - 1])) content.pop()
RECURSIVE PopEmpty(_)
PopEmpty(content) ==
    IF IsEmptyString(At(content, Len(content)))
    THEN PopEmpty(SubSeq(content, 1, Len(content) - 1)) ELSE content

\* while (isEmpty(content[0])) content.shift()
RECURSIVE ShiftEmpty(_)
ShiftEmpty(content) ==
    IF IsEmptyString(At(content, 1))
    THEN ShiftEmpty(SubSeq(content, 2, Len(content))) ELSE content

TrimToken(token) == <<token[1], token[2], ShiftEmpty(PopEmpty(token[3]))>>

Reverse(s) == [i \in 1..Len(s) |-> s[Len(s) + 1 - i]]

\* tokens.filter(...).map(...) of the return statement
RECURSIVE FilterTrim(_)
FilterTrim(toks) ==
    IF toks = <<>> THEN <<>>
    ELSE IF IsEmptyArray(Head(toks)[3]) THEN FilterTrim(Tail(toks))
    ELSE <<TrimToken(Head(toks))>> \o FilterTrim(Tail(toks))

tokenize(text) == Reverse(FilterTrim(MergeLines(Split(Trim(text)), 0, <<>>)))

(***************************************************************************)
(* The regular expressions of processTokens                                *)
(***************************************************************************)

NoMatch == <<>>

\* \d{4}-\d{1,2}-\d{1,2} over the whole of d
IsDate(d) ==
    \E m \in 1..2, n \in 1..2 :
        /\ Len(d) = 6 + m + n
        /\ \A i \in 1..4 : d[i] \in Digits
        /\ d[5] = "-"
        /\ \A i \in 6..(5 + m) : d[i] \in Digits
        /\ d[6 + m] = "-"
        /\ \A i \in (7 + m)..(6 + m + n) : d[i] \in Digits

IsUnreleased(d) == d = <<"u", "n", "r", "e", "l", "e", "a", "s", "e", "d">>

\* the last part of the pattern of a release title: a date, or "unreleased"
IsTail(tail, d) == IF tail = "date" THEN IsDate(d) ELSE IsUnreleased(d)

\* \]?\s*-\s* matched from index k: the index after it, 0 when it does not match
AfterDash(s, k) ==
    LET k1 == IF k <= Len(s) /\ s[k] = "]" THEN k + 1 ELSE k
        k2 == SkipSpace(s, k1)
    IN  IF k2 <= Len(s) /\ s[k2] = "-" THEN SkipSpace(s, k2 + 1) ELSE 0

\* /\[?([^\]]+)\]?\s*-\s*(<tail>)$/ as a backtracking matcher runs it: the
\* leftmost start; there the "[" taken before it is left to group 1; group 1 the
\* longest that lets the rest match.

\* group 1 is s[first..last] and the rest of the pattern matches after it
GroupFits(s, first, last, tail) ==
    /\ first <= last
    /\ \A i \in first..last : s[i] # "]"
    /\ AfterDash(s, last + 1) # 0
    /\ IsTail(tail, SubSeq(s, AfterDash(s, last + 1), Len(s)))

\* the greatest last <= from with GroupFits, 0 when there is none
RECURSIVE LongestGroup(_, _, _, _)
LongestGroup(s, first, from, tail) ==
    IF from < first THEN 0
    ELSE IF GroupFits(s, first, from, tail) THEN from
    ELSE LongestGroup(s, first, from - 1, tail)

\* the match that starts at index start: <<first, last>> of group 1, <<>> when none
MatchAt(s, start, tail) ==
    LET taken == IF s[start] = "[" THEN LongestGroup(s, start + 1, Len(s), tail) ELSE 0
        left  == LongestGroup(s, start, Len(s), tail)
    IN  IF taken # 0 THEN <<start + 1, taken>>
        ELSE IF left # 0 THEN <<start, left>>
        ELSE <<>>

RECURSIVE MatchFrom(_, _, _)
MatchFrom(s, start, tail) ==
    IF start > Len(s) THEN <<>>
    ELSE IF MatchAt(s, start, tail) # <<>> THEN MatchAt(s, start, tail)
    ELSE MatchFrom(s, start + 1, tail)

HeaderMatch(s, tail) ==
    LET g == MatchFrom(s, 1, tail)
    IN  IF g = <<>> THEN NoMatch
        ELSE <<SubSeq(s, g[1], g[2]), SubSeq(s, AfterDash(s, g[2] + 1), Len(s))>>

\* /\[?([^\]]+)\]?\s*-\s*([\d]{4}-[\d]{1,2}-[\d]{1,2})$/
MatchDated(s) == HeaderMatch(s, "date")

\* /\[?([^\]]+)\]?\s*-\s*unreleased$/
MatchUnreleased(s) == HeaderMatch(s, "unreleased")

Compare == <<"/", "c", "o", "m", "p", "a", "r", "e", "/">>

\* /^\[.*\]\:\s*(http.*)\/compare\/.*$/ : group 1 of the match.  Both .* are
\* greedy: the last "]:" after which the rest matches, then the last "/compare/".

\* the greatest e <= from with s[e+1..] starting with "/compare/", 0 when none
RECURSIVE LastCompare(_, _, _)
LastCompare(s, least, from) ==
    IF from < least THEN 0
    ELSE IF OccursAt(s, from + 1, Compare) THEN from
    ELSE LastCompare(s, least, from - 1)

\* the group when "]" is at index k: <<first, last>>, <<>> when no match
CompareAt(s, k) ==
    LET h == SkipSpace(s, k + 2)
        e == LastCompare(s, h + 3, Len(s))
    IN  IF OccursAt(s, k, <<"]", ":">>) /\ OccursAt(s, h, <<"h", "t", "t", "p">>) /\ e # 0
        THEN <<h, e>> ELSE <<>>

RECURSIVE CompareFrom(_, _)
CompareFrom(s, k) ==
    IF k < 2 THEN <<>>
    ELSE IF CompareAt(s, k) # <<>> THEN CompareAt(s, k)
    ELSE CompareFrom(s, k - 1)

MatchCompare(s) ==
    LET g == IF StartsWith(s, <<"[">>) THEN CompareFrom(s, Len(s)) ELSE <<>>
    IN  IF g = <<>> THEN NoMatch ELSE <<SubSeq(s, g[1], g[2])>>

(***************************************************************************)
(* The inputs: markdown texts built of the lines below                     *)
(***************************************************************************)

\* "# T"
LineTitle == <<"#", " ", "T">>

\* "## V1 - 2024-1-5"
LineDated == <<"#", "#", " ", "V", "1", " ", "-", " ", "2", "0", "2", "4", "-", "1", "-", "5">>

\* "## [V1] - 2024-1-5"
LineDatedBracket == <<"#", "#", " ", "[", "V", "1", "]", " ", "-", " ", "2", "0", "2", "4", "-", "1", "-", "5">>

\* "## v2 - Unreleased"
LineLabelUnreleased == <<"#", "#", " ", "v", "2", " ", "-", " ", "U", "n", "r", "e", "l", "e", "a", "s", "e", "d">>

\* "## Unreleased"
LineUnreleased == <<"#", "#", " ", "U", "n", "r", "e", "l", "e", "a", "s", "e", "d">>

\* "## [Unreleased]"
LineBracketUnreleased == <<"#", "#", " ", "[", "U", "n", "r", "e", "l", "e", "a", "s", "e", "d", "]">>

\* "## bad"
LineBadHeader == <<"#", "#", " ", "b", "a", "d">>

\* "### Added"
LineAdded == <<"#", "#", "#", " ", "A", "d", "d", "e", "d">>

\* "### fixed"
LineFixed == <<"#", "#", "#", " ", "f", "i", "x", "e", "d">>

\* "- a"
LineItemA == <<"-", " ", "a">>

\* "* b"
LineItemB == <<"*", " ", "b">>

\* "text"
LineText == <<"t", "e", "x", "t">>

\* "[1]: http://x/compare/a"
LineLinkX == <<"[", "1", "]", ":", " ", "h", "t", "t", "p", ":", "/", "/", "x", "/", "c", "o", "m", "p", "a", "r", "e", "/", "a">>

\* "[2]: http://y/compare/b"
LineLinkY == <<"[", "2", "]", ":", " ", "h", "t", "t", "p", ":", "/", "/", "y", "/", "c", "o", "m", "p", "a", "r", "e", "/", "b">>

\* "[3]: http://z"
LineLinkPlain == <<"[", "3", "]", ":", " ", "h", "t", "t", "p", ":", "/", "/", "z">>

\* "---"
LineRule == <<"-", "-", "-">>

\* "<!-- f -->"
LineFlag == <<"<", "!", "-", "-", " ", "f", " ", "-", "-", ">">>

\* ""
LineBlank == <<>>

\* "  more"
LineIndented == <<" ", " ", "m", "o", "r", "e">>

\* "tail "
LineTrailing == <<"t", "a", "i", "l", " ">>

\* "  "
LineSpaces == <<" ", " ">>

\* " x"
LineOneSpace == <<" ", "x">>

\* "   y"
LineThreeSpaces == <<" ", " ", " ", "y">>

\* "#"
LineHash1 == <<"#">>

\* "##"
LineHash2 == <<"#", "#">>

\* "###"
LineHash3 == <<"#", "#", "#">>

\* Every kind of line and of release title
Lines ==
    {LineTitle, LineDated, LineDatedBracket, LineLabelUnreleased, LineUnreleased,
     LineBracketUnreleased, LineBadHeader, LineAdded, LineItemA, LineText,
     LineLinkX, LineLinkPlain, LineRule, LineFlag, LineBlank}

\* The lines that follow the title in the texts that end early or late
TailLines == {LineBadHeader, LineUnreleased, LineText, LineLinkX, LineRule, LineItemA}

\* The lines of the body of a changelog: releases, their sections and entries
\* (two labels and two entries, to tell them apart)
BodyLines == {LineDatedBracket, LineAdded, LineFixed, LineItemA, LineItemB}

\* The reference links
LinkLines == {LineLinkX, LineLinkY, LineLinkPlain}

\* The release titles: two versions, one of them under two forms, and none
ReleaseLines == {LineDated, LineDatedBracket, LineLabelUnreleased, LineUnreleased}

\* The lines of plain text, with and without white space around them
TextLines == {LineText, LineIndented, LineTrailing, LineSpaces}

\* The lines that put the tokenizer to the test: entries and what continues
\* them, blank lines, heading markers with nothing after them
TokenLines ==
    {LineItemA, LineSpaces, LineOneSpace, LineIndented, LineThreeSpaces,
     LineHash1, LineHash2, LineHash3}

\* A line of each kind, and the empty line
KindLines ==
    {LineTitle, LineDated, LineAdded, LineItemA, LineText, LineLinkX, LineRule,
     LineFlag, LineBlank}

MaxHead == 2
MaxTail == 3
MaxBody == 4
MaxLinks == 3
MaxText == 3
MaxTokenLines == 3
MaxReleases == 3

SeqsUpTo(S, n) == UNION {[1..k -> S] : k \in 0..n}

Document(lines) == Join(lines, <<"\n">>)

\* The texts parsed: any lines at the head of a text; a title and any lines of
\* the end of a changelog; a title, a release and the lines of a body of
\* releases; a title and reference links; plain text
Inputs ==
    {Document(l) : l \in SeqsUpTo(Lines, MaxHead)}
    \cup {Document(<<LineTitle>> \o l) : l \in SeqsUpTo(TailLines, MaxTail)}
    \cup {Document(<<LineTitle, LineDatedBracket>> \o l) : l \in SeqsUpTo(BodyLines, MaxBody)}
    \cup {Document(<<LineTitle>> \o l) : l \in SeqsUpTo(LinkLines, MaxLinks)}
    \cup {Document(l) : l \in SeqsUpTo(TextLines, MaxText)}
    \cup {Document(<<LineTitle>> \o l) : l \in SeqsUpTo(ReleaseLines, MaxReleases)}

(***************************************************************************)
(* The parser                                                              *)
(***************************************************************************)

NoError == [name |-> "none", message |-> "", line |-> 0]

\* new Error(`Required token missing in: "${tokens[0][0]}"`)
RequiredTokenMissing(line) ==
    [name |-> "Error", message |-> "Required token missing in", line |-> line]

\* new Error(`Syntax error in the release title`)
SyntaxError == [name |-> "Error", message |-> "Syntax error in the release title", line |-> 0]

\* new Error(`Unexpected content ${JSON.stringify(tokens)}`)
UnexpectedContent == [name |-> "Error", message |-> "Unexpected content", line |-> 0]

\* the fault of reading tokens[0][0] when tokens[0] is undefined
TypeError == [name |-> "TypeError", message |-> "tokens[0] is undefined", line |-> 0]

\* new Error(`Parse error in the line ${tokens[0][0]}: ${error.message}`)
ParseError(line, e) == [name |-> "Error", message |-> e.message, line |-> line]

\* getContent that shifts the front token also when its kind is another one
getContentShift(toks, kind, required) ==
    IF toks = <<>> \/ toks[1][2] # kind
    THEN [content |-> <<>>, tokens |-> IF toks = <<>> THEN toks ELSE Tail(toks),
          error |-> IF ~required THEN NoError
                    ELSE IF toks = <<>> THEN TypeError
                    ELSE RequiredTokenMissing(toks[1][1])]
    ELSE [content |-> Join(toks[1][3], <<"\n">>), tokens |-> Tail(toks),
          error |-> NoError]

\* getContent: the content returned, the queue left, the error thrown
getContent(toks, kind, required) ==
    IF toks = <<>> \/ toks[1][2] # kind
    THEN [content |-> <<>>, tokens |-> toks,
          error |-> IF ~required THEN NoError
                    ELSE IF toks = <<>> THEN TypeError
                    ELSE RequiredTokenMissing(toks[1][1])]
    ELSE [content |-> Join(toks[1][3], <<"\n">>), tokens |-> Tail(toks),
          error |-> NoError]

\* new Changelog("")
NewChangelog ==
    [flag |-> Undefined, title |-> <<>>, description |-> Undefined,
     releases |-> <<>>, url |-> Undefined, footer |-> Undefined]

\* opts.releaseCreator(version, date): the release of the arguments given; its
\* changes are the addChange(type, change) calls made on it
releaseCreator(version, date) ==
    [version |-> version, date |-> date, description |-> Undefined, changes |-> <<>>]

\* changelog.addRelease(release): the release added at the end of the list
addRelease(cl, release) == [cl EXCEPT !.releases = Append(@, release)]

\* CreateRelease with the title given as the version of a bare unreleased one
CreateReleaseNamed(release) ==
    LET dated == MatchDated(release)
        unreleased == MatchUnreleased(release)
    IN
    IF dated # NoMatch
    THEN <<releaseCreator(dated[1], dated[2])>>
    ELSE IF Includes(release, <<"u", "n", "r", "e", "l", "e", "a", "s", "e", "d">>)
    THEN IF unreleased # NoMatch
         THEN <<releaseCreator(unreleased[1], Undefined)>>
         ELSE <<releaseCreator(release, Undefined)>>
    ELSE <<>>

\* The branches on the release title: the release created, or none (the throw)
CreateRelease(release) ==
    LET dated == MatchDated(release)
        unreleased == MatchUnreleased(release)
    IN
    IF dated # NoMatch
    THEN <<releaseCreator(dated[1], dated[2])>>
    ELSE IF Includes(release, <<"u", "n", "r", "e", "l", "e", "a", "s", "e", "d">>)
    THEN IF unreleased # NoMatch
         THEN <<releaseCreator(unreleased[1], Undefined)>>
         ELSE <<releaseCreator(Undefined, Undefined)>>
    ELSE <<>>

Init ==
    /\ markdown \in Inputs
    /\ tokens = <<>>
    /\ cursor = 0
    /\ pc = "tokenize"
    /\ changelog = NewChangelog
    /\ type = <<>>
    /\ error = NoError
    /\ thrown = NoError
    /\ result = <<>>

\* const tokens = tokenize(markdown)
Tokenize ==
    /\ pc = "tokenize"
    /\ tokens' = tokenize(markdown)
    /\ pc' = "flag"
    /\ UNCHANGED <<markdown, cursor, changelog, type, error, thrown, result>>

\* changelog.flag = getContent(tokens, "flag")
TakeFlag ==
    /\ pc = "flag"
    /\ LET r == getContent(tokens, "flag", FALSE) IN
        /\ changelog' = [changelog EXCEPT !.flag = r.content]
        /\ tokens' = r.tokens
    /\ pc' = "title"
    /\ UNCHANGED <<markdown, cursor, type, error, thrown, result>>

\* changelog.title = getContent(tokens, "h1", true)
TakeTitle ==
    /\ pc = "title"
    /\ LET r == getContent(tokens, "h1", TRUE) IN
        IF r.error # NoError
        THEN /\ error' = r.error
             /\ pc' = "catch"
             /\ UNCHANGED <<tokens, changelog>>
        ELSE /\ changelog' = [changelog EXCEPT !.title = r.content]
             /\ tokens' = r.tokens
             /\ pc' = "description"
             /\ UNCHANGED error
    /\ UNCHANGED <<markdown, cursor, type, thrown, result>>

\* changelog.description = getContent(tokens, "p")
TakeDescription ==
    /\ pc = "description"
    /\ LET r == getContent(tokens, "p", FALSE) IN
        /\ changelog' = [changelog EXCEPT !.description = r.content]
        /\ tokens' = r.tokens
    /\ pc' = "release"
    /\ UNCHANGED <<markdown, cursor, type, error, thrown, result>>

\* TakeRelease that does not add a release whose version the document holds
TakeReleaseOnce ==
    /\ pc = "release"
    /\ LET r == getContent(tokens, "h2", FALSE)
           release == ToLowerCase(r.content)
           created == CreateRelease(release)
       IN  IF release = <<>>
           THEN /\ pc' = "link"
                /\ UNCHANGED <<tokens, changelog, error>>
           ELSE IF created = <<>>
           THEN /\ tokens' = r.tokens
                /\ error' = SyntaxError
                /\ pc' = "catch"
                /\ UNCHANGED changelog
           ELSE /\ tokens' = r.tokens
                /\ changelog' =
                    IF \E k \in 1..Len(changelog.releases) :
                        changelog.releases[k].version = created[1].version
                    THEN changelog
                    ELSE addRelease(changelog, created[1])
                /\ pc' = "releaseDescription"
                /\ UNCHANGED error
    /\ UNCHANGED <<markdown, cursor, type, thrown, result>>

\* One test of the release loop and the head of its body: the title matched,
\* the release created and added
TakeRelease ==
    /\ pc = "release"
    /\ LET r == getContent(tokens, "h2", FALSE)
           release == ToLowerCase(r.content)
           created == CreateRelease(release)
       IN  IF release = <<>>
           THEN /\ pc' = "link"
                /\ UNCHANGED <<tokens, changelog, error>>
           ELSE IF created = <<>>
           THEN /\ tokens' = r.tokens
                /\ error' = SyntaxError
                /\ pc' = "catch"
                /\ UNCHANGED changelog
           ELSE /\ tokens' = r.tokens
                /\ changelog' = addRelease(changelog, created[1])
                /\ pc' = "releaseDescription"
                /\ UNCHANGED error
    /\ UNCHANGED <<markdown, cursor, type, thrown, result>>

\* release.description = getContent(tokens, "p")
TakeReleaseDescription ==
    /\ pc = "releaseDescription"
    /\ LET r == getContent(tokens, "p", FALSE) IN
        /\ changelog' = [changelog EXCEPT
                            !.releases[Len(changelog.releases)].description = r.content]
        /\ tokens' = r.tokens
    /\ pc' = "type"
    /\ UNCHANGED <<markdown, cursor, type, error, thrown, result>>

\* while ((type = getContent(tokens, "h3").toLowerCase()))
TakeType ==
    /\ pc = "type"
    /\ LET r == getContent(tokens, "h3", FALSE) IN
        /\ type' = ToLowerCase(r.content)
        /\ tokens' = r.tokens
        /\ pc' = IF r.content = <<>> THEN "release" ELSE "change"
    /\ UNCHANGED <<markdown, cursor, changelog, error, thrown, result>>

\* TakeChange with the change added to the first release, not the current one
TakeChangeFirst ==
    /\ pc = "change"
    /\ LET r == getContent(tokens, "li", FALSE) IN
        IF r.content = <<>>
        THEN /\ pc' = "type"
             /\ UNCHANGED <<tokens, changelog>>
        ELSE /\ changelog' = [changelog EXCEPT
                                 !.releases[1].changes = Append(@, <<type, r.content>>)]
             /\ tokens' = r.tokens
             /\ pc' = "change"
    /\ UNCHANGED <<markdown, cursor, type, error, thrown, result>>

\* while ((change = getContent(tokens, "li"))) release.addChange(type, change)
TakeChange ==
    /\ pc = "change"
    /\ LET r == getContent(tokens, "li", FALSE) IN
        IF r.content = <<>>
        THEN /\ pc' = "type"
             /\ UNCHANGED <<tokens, changelog>>
        ELSE /\ changelog' = [changelog EXCEPT
                                 !.releases[Len(changelog.releases)].changes =
                                     Append(@, <<type, r.content>>)]
             /\ tokens' = r.tokens
             /\ pc' = "change"
    /\ UNCHANGED <<markdown, cursor, type, error, thrown, result>>

\* TakeLink without the test of changelog.url: the last match wins
TakeLinkLast ==
    /\ pc = "link"
    /\ LET r == getContent(tokens, "link", FALSE) IN
        IF r.content = <<>>
        THEN /\ pc' = "footer"
             /\ UNCHANGED <<tokens, changelog>>
        ELSE /\ changelog' =
                    IF MatchCompare(r.content) # NoMatch
                    THEN [changelog EXCEPT !.url = MatchCompare(r.content)[1]]
                    ELSE changelog
             /\ tokens' = r.tokens
             /\ pc' = "link"
    /\ UNCHANGED <<markdown, cursor, type, error, thrown, result>>

\* One link taken and one turn of the loop over the links
TakeLink ==
    /\ pc = "link"
    /\ LET r == getContent(tokens, "link", FALSE) IN
        IF r.content = <<>>
        THEN /\ pc' = "footer"
             /\ UNCHANGED <<tokens, changelog>>
        ELSE /\ changelog' =
                    IF changelog.url = Undefined /\ MatchCompare(r.content) # NoMatch
                    THEN [changelog EXCEPT !.url = MatchCompare(r.content)[1]]
                    ELSE changelog
             /\ tokens' = r.tokens
             /\ pc' = "link"
    /\ UNCHANGED <<markdown, cursor, type, error, thrown, result>>

\* TakeFooter with the paragraph after the rule required
TakeFooterRequired ==
    /\ pc = "footer"
    /\ LET hr == getContent(tokens, "hr", FALSE)
           p  == getContent(hr.tokens, "p", TRUE)
       IN  IF hr.content = <<>>
           THEN /\ pc' = "trailing"
                /\ UNCHANGED <<tokens, changelog, error>>
           ELSE IF p.error # NoError
           THEN /\ tokens' = hr.tokens
                /\ error' = p.error
                /\ pc' = "catch"
                /\ UNCHANGED changelog
           ELSE /\ changelog' = [changelog EXCEPT !.footer = p.content]
                /\ tokens' = p.tokens
                /\ pc' = "trailing"
                /\ UNCHANGED error
    /\ UNCHANGED <<markdown, cursor, type, thrown, result>>

\* TakeFooter that goes back to the reference links that follow the footer
TakeFooterThenLinks ==
    /\ pc = "footer"
    /\ LET hr == getContent(tokens, "hr", FALSE)
           p  == getContent(hr.tokens, "p", FALSE)
       IN  IF hr.content = <<>>
           THEN UNCHANGED <<tokens, changelog>>
           ELSE /\ changelog' = [changelog EXCEPT !.footer = p.content]
                /\ tokens' = p.tokens
    /\ pc' = IF tokens' # <<>> /\ tokens'[1][2] = "link" THEN "link" ELSE "trailing"
    /\ UNCHANGED <<markdown, cursor, type, error, thrown, result>>

\* if (getContent(tokens, "hr")) changelog.footer = getContent(tokens, "p")
TakeFooter ==
    /\ pc = "footer"
    /\ LET hr == getContent(tokens, "hr", FALSE)
           p  == getContent(hr.tokens, "p", FALSE)
       IN  IF hr.content = <<>>
           THEN UNCHANGED <<tokens, changelog>>
           ELSE /\ changelog' = [changelog EXCEPT !.footer = p.content]
                /\ tokens' = p.tokens
    /\ pc' = "trailing"
    /\ UNCHANGED <<markdown, cursor, type, error, thrown, result>>

\* Return without the test of the queue
ReturnUnchecked ==
    /\ pc = "trailing"
    /\ result' = <<changelog>>
    /\ pc' = "returned"
    /\ UNCHANGED <<markdown, cursor, tokens, changelog, type, error, thrown>>

\* if (tokens.length) throw ...; return changelog
Return ==
    /\ pc = "trailing"
    /\ IF tokens # <<>>
       THEN /\ error' = UnexpectedContent
            /\ pc' = "catch"
            /\ UNCHANGED result
       ELSE /\ result' = <<changelog>>
            /\ pc' = "returned"
            /\ UNCHANGED error
    /\ UNCHANGED <<markdown, cursor, tokens, changelog, type, thrown>>

\* The catch block of parser: the error wrapped with the line of tokens[0]
Catch ==
    /\ pc = "catch"
    /\ thrown' = IF tokens = <<>> THEN TypeError ELSE ParseError(tokens[1][1], error)
    /\ pc' = "thrown"
    /\ UNCHANGED <<markdown, cursor, tokens, changelog, type, error, result>>

Next ==
    \/ Tokenize
    \/ TakeFlag
    \/ TakeTitle
    \/ TakeDescription
    \/ TakeRelease
    \/ TakeReleaseDescription
    \/ TakeType
    \/ TakeChange
    \/ TakeLink
    \/ TakeFooter
    \/ Return
    \/ Catch

Spec == Init /\ [][Next]_vars

(***************************************************************************)
(* The tokenizer step by step: one action per call of the callback of       *)
(* forEach and per test of a loop of the return statement.  tokens holds    *)
(* the array under construction (newest token first), cursor the index of   *)
(* forEach in the lines and then the index of map in the array.             *)
(***************************************************************************)

\* The texts tokenized step by step
TokenInputs ==
    {Document(l) : l \in SeqsUpTo(TokenLines, MaxTokenLines)}
    \cup {Document(l) : l \in SeqsUpTo(KindLines, MaxHead)}

TokenInit ==
    /\ markdown \in TokenInputs
    /\ tokens = <<>>
    /\ cursor = 0
    /\ pc = "tokenize"
    /\ changelog = NewChangelog
    /\ type = <<>>
    /\ error = NoError
    /\ thrown = NoError
    /\ result = <<>>

\* tokens.filter((token) => !isEmpty(token[2]))
RECURSIVE KeepNonEmpty(_)
KeepNonEmpty(toks) ==
    IF toks = <<>> THEN <<>>
    ELSE IF IsEmptyArray(Head(toks)[3]) THEN KeepNonEmpty(Tail(toks))
    ELSE <<Head(toks)>> \o KeepNonEmpty(Tail(toks))

\* One call of the callback of forEach, on the token of the line of index
\* cursor
MergeNextLine ==
    /\ pc = "tokenize"
    /\ \E lines \in {Split(Trim(markdown))} :
        /\ cursor < Len(lines)
        /\ \E line \in {LineToken(lines[cursor + 1], cursor)} :
            tokens' = MergeLine(tokens, line, cursor)
    /\ cursor' = cursor + 1
    /\ UNCHANGED <<markdown, pc, changelog, type, error, thrown, result>>

\* FilterTokens with no token filtered out
FilterTokensAll ==
    /\ pc = "tokenize"
    /\ cursor = Len(Split(Trim(markdown)))
    /\ cursor' = 1
    /\ pc' = "pop"
    /\ UNCHANGED <<markdown, tokens, changelog, type, error, thrown, result>>

\* The filter of the return statement, once forEach is over; map starts at
\* the first token of the array
FilterTokens ==
    /\ pc = "tokenize"
    /\ cursor = Len(Split(Trim(markdown)))
    /\ tokens' = KeepNonEmpty(tokens)
    /\ cursor' = 1
    /\ pc' = "pop"
    /\ UNCHANGED <<markdown, changelog, type, error, thrown, result>>

\* PopContent with the loop left at once
PopContentNever ==
    /\ pc = "pop"
    /\ cursor <= Len(tokens)
    /\ pc' = "shift"
    /\ UNCHANGED <<markdown, tokens, cursor, changelog, type, error, thrown, result>>

\* One test of while (isEmpty(content[content.length - 1])) content.pop():
\* pop of an empty array leaves it empty
PopContent ==
    /\ pc = "pop"
    /\ cursor <= Len(tokens)
    /\ LET content == tokens[cursor][3] IN
        IF IsEmptyString(At(content, Len(content)))
        THEN /\ tokens' = [tokens EXCEPT ![cursor][3] = SubSeq(content, 1, Len(content) - 1)]
             /\ pc' = "pop"
        ELSE /\ pc' = "shift"
             /\ UNCHANGED tokens
    /\ UNCHANGED <<markdown, cursor, changelog, type, error, thrown, result>>

\* One test of while (isEmpty(content[0])) content.shift(), and return token:
\* map goes on to the next token
ShiftContent ==
    /\ pc = "shift"
    /\ LET content == tokens[cursor][3] IN
        IF IsEmptyString(At(content, 1))
        THEN /\ tokens' = [tokens EXCEPT ![cursor][3] = SubSeq(content, 2, Len(content))]
             /\ pc' = "shift"
             /\ UNCHANGED cursor
        ELSE /\ pc' = "pop"
             /\ cursor' = cursor + 1
             /\ UNCHANGED tokens
    /\ UNCHANGED <<markdown, changelog, type, error, thrown, result>>

\* .reverse() at the end of map: tokenize returns
ReverseTokens ==
    /\ pc = "pop"
    /\ cursor > Len(tokens)
    /\ tokens' = Reverse(tokens)
    /\ pc' = "flag"
    /\ UNCHANGED <<markdown, cursor, changelog, type, error, thrown, result>>

TokenNext ==
    \/ MergeNextLine
    \/ FilterTokens
    \/ PopContent
    \/ ShiftContent
    \/ ReverseTokens

\* tokenize is one synchronous call: it runs on while it has a step to take
SpecTok == TokenInit /\ [][TokenNext]_vars /\ WF_vars(TokenNext)

(***************************************************************************)
(* What the properties speak of                                            *)
(***************************************************************************)

\* The token stream of the text, as the tokenizer returned it
Stream == tokenize(markdown)

\* The tokens taken off the queue so far
Taken ==
    IF pc = "tokenize" THEN <<>>
    ELSE LET stream == Stream IN SubSeq(stream, 1, Len(stream) - Len(tokens))

\* The parser call is over: it returned or it threw
Finished == pc \in {"returned", "thrown"}

\* The kind of the last token taken ("" when none was)
LastKind == IF Taken = <<>> THEN "" ELSE Taken[Len(Taken)][2]

\* The "Parse error in the line ...: <message>" of the entry point
Reported(message) == thrown.name = "Error" /\ thrown.message = message

(***************************************************************************)
(* C1: the footer step.                                                    *)
(***************************************************************************)

\* The rule of the footer was taken and no paragraph after it: the rule is the
\* last token taken of a finished parse (no other step takes a rule)
RuleWithoutParagraph == Finished /\ LastKind = "hr"

\* C1 as claimed: whenever a HorizontalRule is taken at the footer step and the
\* next front token is not a Paragraph (or the queue is exhausted), the parse
\* fails instead of returning a Document with an empty footer.
C1_ParagraphRequired == RuleWithoutParagraph => pc = "thrown" /\ result = <<>>

\* C1 as amended: when a HorizontalRule is taken at the footer step and the next
\* front token is not a Paragraph, the parse fails only if a token remains, with
\* the unexpected-content error on the line of that token; when the queue is
\* exhausted it returns a Document whose footer is the empty string.
C1_ParagraphOptional ==
    RuleWithoutParagraph =>
        IF tokens = <<>>
        THEN pc = "returned" /\ result = <<changelog>> /\ changelog.footer = <<>>
        ELSE /\ pc = "thrown" /\ result = <<>>
             /\ Reported("Unexpected content") /\ thrown.line = tokens[1][1]

\* A Document returned with the rule as the last token of the text
C1_Witness == pc = "returned" /\ LastKind = "hr" /\ changelog.footer = <<>>

(***************************************************************************)
(* C2: the invalid release title.                                          *)
(***************************************************************************)

\* The release loop took an H2 token that matches no pattern of a title: the
\* error processTokens threw
InvalidTitleTaken == error = SyntaxError

\* C2 as claimed: whenever the release loop takes an H2 token whose text neither
\* matches the dated pattern nor contains "unreleased", the parser call fails
\* with the "Syntax error in the release title" error, wherever the H2 stands,
\* the end of the stream included.
C2_InvalidReleaseHeader ==
    (Finished /\ InvalidTitleTaken) =>
        pc = "thrown" /\ Reported("Syntax error in the release title")

(***************************************************************************)
(* C3: the missing title.                                                  *)
(***************************************************************************)

\* After a Flag token at the front, if any, the stream has no H1 at the front
TitleMissing ==
    LET rest == IF Stream # <<>> /\ Stream[1][2] = "flag" THEN Tail(Stream) ELSE Stream
    IN  rest = <<>> \/ rest[1][2] # "h1"

\* C3 as claimed: for every input whose token stream, after a leading Flag if
\* any, has no H1 at the front (another kind, or nothing), the parser call fails
\* with the "Required token missing" error and returns no Document; it does not
\* fault in another way.
C3_MissingTitle ==
    (Finished /\ TitleMissing) =>
        pc = "thrown" /\ result = <<>> /\ Reported("Required token missing in")

(***************************************************************************)
(* C4: the line of the error.                                              *)
(***************************************************************************)

\* C4 as claimed: whenever the parse fails while tokens remain in the queue, the
\* line of the reported error is the line of the token at the point of failure:
\* the front token for a missing required token or unexpected content, the H2
\* token itself (the last token taken) for an invalid release title.
C4_ErrorLine ==
    (pc = "thrown" /\ tokens # <<>>) =>
        thrown.line = IF InvalidTitleTaken THEN Taken[Len(Taken)][1] ELSE tokens[1][1]

(***************************************************************************)
(* C5: the trailing content.                                               *)
(***************************************************************************)

\* The parse went through the footer step: it returned, or threw at the test
\* of the queue that follows the footer
PastFooter == pc = "returned" \/ (pc \in {"catch", "thrown"} /\ error = UnexpectedContent)

\* C5: a Document is returned only when the queue is empty after the footer
\* step; if a token remains there the parse fails with the unexpected-content
\* error and returns no Document.
C5_TrailingContent ==
    /\ result # <<>> => pc = "returned" /\ tokens = <<>> /\ Taken = Stream
    /\ (PastFooter /\ tokens # <<>>) => pc # "returned" /\ result = <<>>
    /\ (pc = "thrown" /\ PastFooter) =>
            Reported("Unexpected content") /\ thrown.line = tokens[1][1]

\* A text with content after the paragraph of the footer has been refused
C5_Witness ==
    /\ pc = "thrown" /\ error = UnexpectedContent
    /\ changelog.footer # Undefined /\ changelog.footer # <<>>
    /\ Len(Taken) >= 2 /\ Taken[Len(Taken) - 1][2] = "hr" /\ Taken[Len(Taken)][2] = "p"

(***************************************************************************)
(* C6, C7: the release titles.                                             *)
(***************************************************************************)

\* The lower-cased texts of the H2 tokens taken, in order
IsTitle(token) == token[2] = "h2"

TitlesTaken ==
    LET titles == SelectSeq(Taken, IsTitle)
    IN  [i \in 1..Len(titles) |-> ToLowerCase(Join(titles[i][3], <<"\n">>))]

\* What follows the dash at index k of a title, without the white space before it
AfterSeparator(h, k) == TrimStart(SubSeq(h, k + 1, Len(h)))

\* The dashes of h that a date or "unreleased" follows to the end of the title
Separators(h) ==
    {k \in 1..Len(h) :
        /\ h[k] = "-"
        /\ IsDate(AfterSeparator(h, k)) \/ IsUnreleased(AfterSeparator(h, k))}

\* The label before the dash at index k: no white space around it, no brackets
LabelBefore(h, k) ==
    LET l == Trim(SubSeq(h, 1, k - 1))
    IN  IF StartsWith(l, <<"[">>) /\ EndsWith(l, <<"]">>) /\ Len(l) >= 2
        THEN SubSeq(l, 2, Len(l) - 1) ELSE l

\* h has the form "<label> - <date>" or "<label> - unreleased", the label
\* wrapped in square brackets or not
IsLabelled(h) ==
    \E k \in Separators(h) :
        /\ LabelBefore(h, k) # <<>>
        /\ \A i \in 1..Len(LabelBefore(h, k)) : LabelBefore(h, k)[i] \notin {"[", "]"}

SeparatorOf(h) == CHOOSE k \in Separators(h) : LabelBefore(h, k) # <<>>

\* C6 as claimed: for every H2 title of the form "<label> - <date>" or
\* "<label> - unreleased", with the label in square brackets or not, the release
\* factory is called with the lower-cased label alone as the version (no
\* brackets, no white space before the dash) and with the date text as the
\* date, or no date in the unreleased form.
C6_ReleaseLabel ==
    Finished =>
        LET titles == TitlesTaken IN
        \A i \in 1..Len(titles) :
            IsLabelled(titles[i]) =>
                LET h == titles[i]
                    k == SeparatorOf(h)
                IN  /\ i <= Len(changelog.releases)
                    /\ changelog.releases[i].version = LabelBefore(h, k)
                    /\ changelog.releases[i].date =
                           IF IsDate(AfterSeparator(h, k))
                           THEN AfterSeparator(h, k) ELSE Undefined

\* h holds "unreleased" and has neither the dated nor the labelled form
IsBareUnreleased(h) ==
    /\ Includes(h, <<"u", "n", "r", "e", "l", "e", "a", "s", "e", "d">>)
    /\ Separators(h) = {}

\* C7: for every H2 title that holds "unreleased" and matches neither the dated
\* pattern nor "<label> - unreleased" (such as "Unreleased", "[Unreleased]"),
\* the release factory is called with no arguments: the release has no version
\* and no date, and the parse does not fail on that title.
C7_BareUnreleased ==
    Finished =>
        LET titles == TitlesTaken IN
        \A i \in 1..Len(titles) :
            IsBareUnreleased(titles[i]) =>
                /\ i <= Len(changelog.releases)
                /\ changelog.releases[i].version = Undefined
                /\ changelog.releases[i].date = Undefined
                /\ ~(i = Len(titles) /\ InvalidTitleTaken)

\* A Document returned whose text holds the title "[Unreleased]"
C7_Witness ==
    /\ pc = "returned"
    /\ LET titles == TitlesTaken IN
        \E i \in 1..Len(titles) :
          /\ IsBareUnreleased(titles[i])
          /\ StartsWith(titles[i], <<"[">>)
          /\ changelog.releases[i].version = Undefined

(***************************************************************************)
(* C8: the change entries.                                                 *)
(***************************************************************************)

Kinds(toks) == [i \in 1..Len(toks) |-> toks[i][2]]

\* The entries of the n-th release of a token stream: its ListItem tokens in
\* order, each with the lower-cased text of the nearest H3 before it.  count is
\* the number of H2 tokens passed, label the text of the last H3 passed.
RECURSIVE EntriesOf(_, _, _, _)
EntriesOf(toks, n, count, label) ==
    IF toks = <<>> THEN <<>>
    ELSE IF Head(toks)[2] = "h2" THEN EntriesOf(Tail(toks), n, count + 1, Undefined)
    ELSE IF Head(toks)[2] = "h3"
         THEN EntriesOf(Tail(toks), n, count, ToLowerCase(Join(Head(toks)[3], <<"\n">>)))
    ELSE IF Head(toks)[2] = "li" /\ count = n
         THEN << <<label, Join(Head(toks)[3], <<"\n">>)>> >>
                  \o EntriesOf(Tail(toks), n, count, label)
    ELSE EntriesOf(Tail(toks), n, count, label)

\* C8: on a successful parse the add-change calls of every release are exactly
\* the ListItem tokens that follow each H3 inside that release, in token order,
\* each under the lower-cased text of the nearest H3 before it: none dropped,
\* doubled, reordered or given to another release, and a label repeated within a
\* release receives the entries of all its sections.
C8_ChangeEntries ==
    pc = "returned" =>
        LET stream == Stream IN
        /\ Len(changelog.releases) = Len(SelectSeq(stream, IsTitle))
        /\ \A i \in 1..Len(changelog.releases) :
              changelog.releases[i].changes = EntriesOf(stream, i, 0, Undefined)

\* A Document returned for a release whose label occurs twice with an entry each
C8_Witness ==
    /\ pc = "returned"
    /\ LET stream == Stream IN
        /\ Kinds(stream) = <<"h1", "h2", "h3", "li", "h3", "li">>
        /\ stream[3][3] = stream[5][3]
    /\ Len(changelog.releases[1].changes) = 2

(***************************************************************************)
(* C9: the compare URL.                                                    *)
(***************************************************************************)

IsLinkToken(token) == token[2] = "link"

\* The ReferenceLink tokens taken so far (only the link step takes them)
LinksTaken == SelectSeq(Taken, IsLinkToken)

\* The capture of the first link of the run that matches the compare pattern
RECURSIVE FirstCompare(_)
FirstCompare(links) ==
    IF links = <<>> THEN Undefined
    ELSE IF MatchCompare(Join(Head(links)[3], <<"\n">>)) # NoMatch
         THEN MatchCompare(Join(Head(links)[3], <<"\n">>))[1]
    ELSE FirstCompare(Tail(links))

\* C9: over the run of consecutive ReferenceLink tokens taken at the link step,
\* the URL of the document is the capture of the first token that matches the
\* compare pattern, wherever it stands in the run; a later match never replaces
\* it, links that do not match have no effect, and without a match the URL stays
\* unset.  The step takes the whole run.
C9_FirstCompareWins ==
    pc \in {"link", "footer", "returned"} =>
        /\ changelog.url = FirstCompare(LinksTaken)
        /\ pc = "footer" => tokens = <<>> \/ tokens[1][2] # "link"

\* A Document returned for three links: the first does not match, the second
\* and the third match with different captures
C9_Witness ==
    /\ pc = "returned"
    /\ LET links == LinksTaken IN
        /\ Len(links) = 3
        /\ FirstCompare(SubSeq(links, 1, 1)) = Undefined
        /\ FirstCompare(SubSeq(links, 3, 3)) # Undefined
        /\ changelog.url = FirstCompare(SubSeq(links, 2, 2))
        /\ changelog.url # FirstCompare(SubSeq(links, 3, 3))

(***************************************************************************)
(* C10: the single paragraph.                                              *)
(***************************************************************************)

\* Every line of the text is classified as plain text
AllPlain(text) ==
    LET lines == Split(text) IN
    \A i \in 1..Len(lines) : LineToken(lines[i], i - 1)[2] = "p"

\* Every line of the text holds a character that is not white space
AllNonEmpty(text) ==
    LET lines == Split(text) IN
    \A i \in 1..Len(lines) : Trim(lines[i]) # <<>>

\* The one token of the queue is a Paragraph whose content joined by newline
\* is text
OneParagraph(text) ==
    /\ Len(tokens) = 1
    /\ tokens[1][2] = "p"
    /\ Join(tokens[1][3], <<"\n">>) = text

\* text with the white space at the end of each line removed
TrimLineEnds(text) ==
    LET lines == Split(text) IN
    Join([i \in 1..Len(lines) |-> TrimEnd(lines[i])], <<"\n">>)

\* C10 as claimed: for every input made only of one or more consecutive
\* non-empty lines that each classify as plain text, tokenize returns exactly one
\* token, of kind Paragraph, whose content joined by newline equals the input
\* lines joined by newline.
C10_SingleParagraph ==
    (pc = "flag" /\ AllNonEmpty(markdown) /\ AllPlain(markdown)) =>
        OneParagraph(markdown)

\* C10 as amended: for every input that is not blank and whose lines, once the
\* white space around the whole input is removed, each classify as plain text,
\* tokenize returns exactly one token, of kind Paragraph, whose content joined
\* by newline equals those lines joined by newline with the white space at the
\* end of each line removed.
C10_SingleParagraphTrimmed ==
    (pc = "flag" /\ Trim(markdown) # <<>> /\ AllPlain(Trim(markdown))) =>
        OneParagraph(TrimLineEnds(Trim(markdown)))

\* A text of several plain lines with white space around them has been tokenized
C10_Witness ==
    /\ pc = "flag" /\ AllNonEmpty(markdown) /\ AllPlain(markdown)
    /\ Len(Split(markdown)) >= 2
    /\ OneParagraph(TrimLineEnds(Trim(markdown)))
    /\ TrimLineEnds(Trim(markdown)) # markdown

(***************************************************************************)
(* C11: the lines that continue a list item.                               *)
(***************************************************************************)

\* The lines the tokenizer classifies
TextLinesOf(text) == Split(Trim(text))

\* The number of white-space characters at the start of content
LeadingSpaces(content) == SkipSpace(content, 1) - 1

\* Line i is a ListItem line with text, and line i + 1 an indented Paragraph
\* line with text
Continues(lines, i) ==
    /\ i \in 1..(Len(lines) - 1)
    /\ LineToken(lines[i], i - 1)[2] = "li"
    /\ ~IsEmptyArray(LineToken(lines[i], i - 1)[3])
    /\ LineToken(lines[i + 1], i)[2] = "p"
    /\ ~IsEmptyArray(LineToken(lines[i + 1], i)[3])
    /\ LeadingSpaces(lines[i + 1]) >= 1

\* The tokenizer returned one ListItem token for lines i and i + 1, its second
\* content line being line i + 1 without its first n characters
Continued(lines, i, n) ==
    \E k \in 1..Len(tokens) :
        /\ tokens[k][1] = i
        /\ tokens[k][2] = "li"
        /\ Len(tokens[k][3]) >= 2
        /\ tokens[k][3][1] = LineToken(lines[i], i - 1)[3][1]
        /\ tokens[k][3][2] = Substr(TrimEnd(lines[i + 1]), n)

Min(a, b) == IF a <= b THEN a ELSE b

\* C11 as claimed: a ListItem line immediately followed by an indented
\* Paragraph line yields one ListItem token whose content holds both lines,
\* the continuation having lost one space when indented by one and exactly two
\* when indented by two or more.
C11_UpToTwoStripped ==
    pc = "flag" =>
        LET lines == TextLinesOf(markdown) IN
        \A i \in 1..Len(lines) :
            Continues(lines, i) =>
                Continued(lines, i, Min(2, LeadingSpaces(lines[i + 1])))

\* C11: a ListItem line immediately followed by an indented Paragraph line
\* yields one ListItem token whose content holds both lines; the continuation
\* line loses exactly its first two white-space characters when it starts with
\* two or more, and keeps its one leading space when indented by only one.
C11_TwoOrNoneStripped ==
    pc = "flag" =>
        LET lines == TextLinesOf(markdown) IN
        \A i \in 1..Len(lines) :
            Continues(lines, i) =>
                Continued(lines, i,
                          IF LeadingSpaces(lines[i + 1]) >= 2 THEN 2 ELSE 0)

\* tokenize returned for a text that continues one item by a line indented by
\* one space and another by a line indented by three
C11_Witness ==
    /\ pc = "flag"
    /\ LET lines == TextLinesOf(markdown) IN
        /\ \E i \in 1..Len(lines) :
            /\ Continues(lines, i)
            /\ LeadingSpaces(lines[i + 1]) = 1
            /\ Continued(lines, i, 0)

(***************************************************************************)
(* C12: the tokenizer returns.                                             *)
(***************************************************************************)

\* C12: tokenize terminates and returns a token sequence for every input text:
\* neither the loop that pops the blank lines at the end of a content nor the
\* loop that shifts the blank lines at its start runs forever, and the
\* sequence returned for an empty or white-space-only text is empty.
C12_TokenizeReturns ==
    /\ <>(pc = "flag")
    /\ [](pc = "flag" => tokens = Stream)
    /\ [](pc = "flag" /\ Trim(markdown) = <<>> => tokens = <<>>)

\* tokenize returned the empty sequence for a text of white space only
C12_Witness ==
    /\ pc = "flag"
    /\ markdown # <<>>
    /\ Trim(markdown) = <<>>
    /\ tokens = <<>>

(***************************************************************************)
(* C13: the heading markers with nothing after them.                       *)
(***************************************************************************)

\* The line is "#", "##" or "###" and nothing else
IsBareMarker(line) ==
    line \in {<<"#">>, <<"#", "#">>, <<"#", "#", "#">>}

\* The heading kind the marker stands for
MarkerKind(line) == <<"h1", "h2", "h3">>[Len(line)]

\* Line i of the text went into token k of the queue: the last token that
\* starts at line i or before it
Holds(k, i) ==
    /\ k \in 1..Len(tokens)
    /\ tokens[k][1] <= i
    /\ k < Len(tokens) => tokens[k + 1][1] > i

\* line is one of the content lines of the token
HasLine(token, line) == \E j \in 1..Len(token[3]) : token[3][j] = line

\* C13 as claimed: a line that is only "#", "##" or "###" is classified as a
\* heading (H1, H2, H3) with empty content, and is dropped from the output:
\* no token holds it as a content line.
C13_BareMarkerDropped ==
    pc = "flag" =>
        LET lines == TextLinesOf(markdown) IN
        \A i \in 1..Len(lines) :
            IsBareMarker(lines[i]) =>
                /\ LineToken(lines[i], i - 1)[2] = MarkerKind(lines[i])
                /\ IsEmptyArray(LineToken(lines[i], i - 1)[3])
                /\ \A k \in 1..Len(tokens) :
                    Holds(k, i) => ~HasLine(tokens[k], lines[i])

\* C13: a line that is only "#", "##" or "###" is classified as a Paragraph
\* whose content is the marker itself, and is kept in the output: the token
\* that holds it is a Paragraph or a ListItem with the marker among its
\* content lines.
C13_BareMarkerIsText ==
    pc = "flag" =>
        LET lines == TextLinesOf(markdown) IN
        \A i \in 1..Len(lines) :
            IsBareMarker(lines[i]) =>
                /\ LineToken(lines[i], i - 1) = <<i, "p", <<lines[i]>> >>
                /\ \E k \in 1..Len(tokens) :
                    /\ Holds(k, i)
                    /\ tokens[k][2] \in {"p", "li"}
                    /\ HasLine(tokens[k], lines[i])

\* tokenize returned a ListItem token that holds a "##" line of the text
C13_Witness ==
    /\ pc = "flag"
    /\ LET lines == TextLinesOf(markdown) IN
        /\ \E i \in 1..Len(lines), k \in 1..Len(tokens) :
            /\ lines[i] = <<"#", "#">>
            /\ Holds(k, i)
            /\ tokens[k][2] = "li"
            /\ HasLine(tokens[k], lines[i])

(***************************************************************************)
(* C14: the merging rule.                                                  *)
(***************************************************************************)

\* The newest token of the array took content as one more content line, and
\* nothing else changed
Appended(before, after) ==
    /\ Len(after) = Len(before)
    /\ Tail(after) = Tail(before)
    /\ after[1][1] = before[1][1]
    /\ after[1][2] = before[1][2]
    /\ Len(after[1][3]) = Len(before[1][3]) + 1
    /\ SubSeq(after[1][3], 1, Len(before[1][3])) = before[1][3]

\* C14: scanning the lines in order, a line is appended to the most recently
\* emitted token if and only if it classifies as Paragraph and that token is a
\* Paragraph or a ListItem; every other line (a line of another kind, a
\* Paragraph after a token of another kind, the first line) starts a new token
\* of its own kind at its own line, so adjacent ListItem lines or adjacent
\* ReferenceLink lines are never merged.
C14_MergingRule ==
    [][pc = "tokenize" /\ pc' = "tokenize" /\ cursor' = cursor + 1 =>
        LET lines == TextLinesOf(markdown)
            line == LineToken(lines[cursor + 1], cursor)
        IN  IF cursor > 0 /\ line[2] = "p" /\ tokens[1][2] \in {"p", "li"}
            THEN Appended(tokens, tokens')
            ELSE tokens' = <<line>> \o tokens]_vars

\* Three lines scanned, two ListItem lines and a Paragraph line: two tokens,
\* the newer one of two content lines
C14_Witness ==
    /\ pc = "tokenize"
    /\ cursor = 3
    /\ Len(tokens) = 2
    /\ tokens[1][2] = "li"
    /\ tokens[2][2] = "li"
    /\ Len(tokens[1][3]) = 2
    /\ Len(tokens[2][3]) = 1

(***************************************************************************)
(* C15: the order of the releases.                                         *)
(***************************************************************************)

IsReleaseTitle(token) == token[2] = "h2"

\* The H2 tokens of the stream, in the order they occur
ReleaseTitles(stream) == SelectSeq(stream, IsReleaseTitle)

\* The release the factory returns for the title of an H2 token
ReleaseOf(token) == CreateRelease(ToLowerCase(Join(token[3], <<"\n">>)))[1]

\* C15: on a successful parse the release factory is called once per H2 token
\* of the stream, and the release list of the document holds the results in
\* the order of the H2 tokens: the i-th release has the version and the date
\* of the i-th title, with no release merged, skipped or deduplicated even
\* when two titles carry the same version.
C15_ReleaseOrder ==
    pc = "returned" =>
        LET titles == ReleaseTitles(Stream) IN
        /\ Len(changelog.releases) = Len(titles)
        /\ \A i \in 1..Len(titles) :
            LET release == ReleaseOf(titles[i]) IN
            /\ changelog.releases[i].version = release.version
            /\ changelog.releases[i].date = release.date

\* A Document returned with three releases: the first and the third have the
\* same version, the second another
C15_Witness ==
    /\ pc = "returned"
    /\ Len(changelog.releases) = 3
    /\ changelog.releases[1].version = changelog.releases[3].version
    /\ changelog.releases[1].version # changelog.releases[2].version
    /\ changelog.releases[2].version # Undefined

(***************************************************************************)
(* C16: the grammar of the token kinds.                                    *)
(***************************************************************************)

\* The place reached in
\*   Flag? H1 Paragraph? (H2 Paragraph? (H3 ListItem*)*)* ReferenceLink*
\*   (HorizontalRule Paragraph?)?
\* after a token of the given kind is read at place; "reject" when the shape
\* has no such token there
GrammarStep(place, kind) ==
    LET later ==
            IF kind = "h2" THEN "releaseTitle"
            ELSE IF kind = "link" THEN "links"
            ELSE IF kind = "hr" THEN "rule"
            ELSE "reject"
    IN
    CASE place = "start" ->
            IF kind = "flag" THEN "flag" ELSE IF kind = "h1" THEN "title" ELSE "reject"
      [] place = "flag" -> IF kind = "h1" THEN "title" ELSE "reject"
      [] place = "title" -> IF kind = "p" THEN "description" ELSE later
      [] place = "description" -> later
      [] place = "releaseTitle" ->
            IF kind = "p" THEN "releaseDescription"
            ELSE IF kind = "h3" THEN "section" ELSE later
      [] place = "releaseDescription" -> IF kind = "h3" THEN "section" ELSE later
      [] place = "section" -> IF kind \in {"h3", "li"} THEN "section" ELSE later
      [] place = "links" -> IF kind \in {"link", "hr"} THEN later ELSE "reject"
      [] place = "rule" -> IF kind = "p" THEN "footer" ELSE "reject"
      [] OTHER -> "reject"

RECURSIVE GrammarRun(_, _)
GrammarRun(kinds, place) ==
    IF kinds = <<>> THEN place
    ELSE GrammarRun(Tail(kinds), GrammarStep(place, Head(kinds)))

\* The sequence of kinds has the shape of the grammar
InGrammar(kinds) == GrammarRun(kinds, "start") \notin {"start", "flag", "reject"}

\* C16: parse returns a Document only if the kinds of the token stream, in
\* order, have the shape Flag? H1 Paragraph? (H2 Paragraph? (H3 ListItem*)*)*
\* ReferenceLink* (HorizontalRule Paragraph?)?; a token out of that order makes
\* the parse fail, since no phase is entered a second time.
C16_FixedGrammar ==
    pc = "returned" => InGrammar(Kinds(Stream))

\* A Document returned for a stream with a release, two sections and entries
C16_Witness ==
    /\ pc = "returned"
    /\ LET kinds == Kinds(Stream) IN
        /\ Len(kinds) = 6
        /\ SubSeq(kinds, 1, 4) = <<"h1", "h2", "h3", "li">>
        /\ kinds[6] = "h3"

(***************************************************************************)
(* C17: what a take leaves of the queue.                                   *)
(***************************************************************************)

TokenKinds == {"h1", "h2", "h3", "li", "p", "link", "flag", "hr"}

\* queue is what is left of stream once some of its first tokens are removed
IsSuffix(queue, stream) ==
    /\ Len(queue) <= Len(stream)
    /\ queue = SubSeq(stream, Len(stream) - Len(queue) + 1, Len(stream))

\* C17: a non-required take of a kind that is not the kind of the front token,
\* or on an empty queue, returns the empty string without an error and leaves
\* the queue as it is; a take of the kind of the front token, required or not,
\* returns its joined content and removes the front token and nothing else.
\* So at every point of a parse the queue is a suffix of the output of the
\* tokenizer.
C17_TakeFrame ==
    pc # "tokenize" =>
        /\ IsSuffix(tokens, Stream)
        /\ \A kind \in TokenKinds :
            IF tokens = <<>> \/ tokens[1][2] # kind
            THEN getContent(tokens, kind, FALSE) =
                    [content |-> <<>>, tokens |-> tokens, error |-> NoError]
            ELSE \A required \in BOOLEAN :
                    getContent(tokens, kind, required) =
                        [content |-> Join(tokens[1][3], <<"\n">>),
                         tokens |-> Tail(tokens), error |-> NoError]

\* The take of the flag found a token of another kind at the front and left
\* the whole stream in the queue
C17_Witness ==
    /\ pc = "title"
    /\ tokens # <<>>
    /\ tokens[1][2] # "flag"
    /\ tokens = Stream

(***************************************************************************)
(* C18: the line numbers of the tokens.                                    *)
(***************************************************************************)

\* The first content line of the token is the content of line n of the text,
\* a line of the kind of the token (white space around the two left aside)
StartsAtLine(token, text, n) ==
    LET lines == Split(text) IN
    /\ n \in 1..Len(lines)
    /\ LineToken(lines[n], n - 1)[2] = token[2]
    /\ Trim(LineToken(lines[n], n - 1)[3][1]) = Trim(token[3][1])

\* C18 as claimed: in the output of tokenize the line numbers are strictly
\* increasing, and the line number of every token is the 1-indexed line of the
\* input on which the first line of its trimmed content occurs, also when
\* blank lines precede the token or start the input.
C18_LineNumbers ==
    pc = "flag" =>
        \A k \in 1..Len(tokens) :
            /\ k > 1 => tokens[k - 1][1] < tokens[k][1]
            /\ StartsAtLine(tokens[k], markdown, tokens[k][1])

(***************************************************************************)
(* C19: an empty string is no token.                                       *)
(***************************************************************************)

\* The token has a content line, and its first and last ones are not blank
HasContent(token) ==
    /\ Len(token[3]) >= 1
    /\ ~IsEmptyString(token[3][1])
    /\ ~IsEmptyString(token[3][Len(token[3])])

\* C19: every token returned by tokenize has at least one content line, its
\* first and last content lines are not blank, and its content joined by
\* newline is not the empty string; so on every queue the parser can meet (a
\* suffix of the tokens returned) a non-required take of any kind returns the
\* empty string if and only if it took no token, and no loop of the parser
\* takes a token and then stops as if there had been none.
C19_EmptyMeansNoToken ==
    pc = "flag" =>
        /\ \A k \in 1..Len(tokens) :
            /\ HasContent(tokens[k])
            /\ Join(tokens[k][3], <<"\n">>) # <<>>
        /\ \A n \in 0..Len(tokens), kind \in TokenKinds :
            LET queue == SubSeq(tokens, n + 1, Len(tokens))
                take == getContent(queue, kind, FALSE)
            IN  take.content = <<>> <=> take.tokens = queue

\* tokenize returned two ListItem tokens of one content line each for three
\* lines: the blank line between the two was added to the first and popped
C19_Witness ==
    /\ pc = "flag"
    /\ Len(TextLinesOf(markdown)) = 3
    /\ Len(tokens) = 2
    /\ tokens[1][2] = "li" /\ tokens[1][1] = 1 /\ Len(tokens[1][3]) = 1
    /\ tokens[2][2] = "li" /\ tokens[2][1] = 3

====
